---- MODULE Spec2Model ----
(***************************************************************************)
(* Moducate backend: the role/approval state of the `users` collection,   *)
(* the custom claims held by the identity provider, the callables that    *)
(* change them, the Firestore triggers that react to document writes, and *)
(* the assessment callables that consult verifyUserRole.                  *)
(*                                                                         *)
(* Every awaited store or identity-provider call is one atomic step; a    *)
(* callable or trigger that awaits more than once is a process kept in    *)
(* `inflight` between its steps, so that invocations interleave.          *)
(*                                                                         *)
(* Spec is the program with every store and provider call succeeding;     *)
(* FaultSpec is its user side with the synchronization calls failing too; *)
(* ProvisionedSpec starts from a deployment at rest (registered accounts, *)
(* an optional draft) and lets the calls inside the triggers fail.        *)
(***************************************************************************)
EXTENDS Integers, FiniteSets, Sequences, Bags, TLC

\* ------------------------------------------------------------------ bounds
MaxUsers == 2
MaxCalls == 2
MaxInFlight == 2
MaxAssessments == 1

\* ------------------------------------------------------------------ values
\* attached[u] records every claims record that setCustomUserClaims has been
\* given for u so far (the identity provider itself keeps only the last one).
VARIABLES nIdent, users, claims, attached, assessments, events, inflight, reply, calls

vars == <<nIdent, users, claims, attached, assessments, events, inflight, reply, calls>>

\* JavaScript null in an identifier field (moderatorId: null), and the absent
\* context.auth / absent userId of a callable request.
NullId == 0

Uids == 1..MaxUsers
AssessmentIds == 1..MaxAssessments

\* The identities that exist in the identity provider (uids are handed out in order).
Identities == 1..nIdent

\* A document id that holds no document (doc.exists === false).
NoDoc == [exists |-> FALSE]
\* A field a document does not carry, and a field holding null.
Undefined == [undefined |-> TRUE]
Null == [null |-> TRUE]
\* An identity with no custom claims attached.
NoClaims == [unset |-> TRUE]

NullFeedback == "null"

validRoles == {"admin", "moderator", "lecturer"}

\* ------------------------------------------------------------------ claims records
\* updateUserRole: customClaims[r] = (r === role) for each valid role.
updateUserRoleClaims(role) ==
    [admin |-> role = "admin", moderator |-> role = "moderator", lecturer |-> role = "lecturer"]

\* onUserUpdate with 'moderator' missing from its validRoles list.
onUserUpdateClaimsNoModerator(afterRole) ==
    [admin |-> afterRole = "admin", lecturer |-> afterRole = "lecturer"]

\* onUserUpdate: customClaims[role] = (role === afterData.role).
onUserUpdateClaims(afterRole) ==
    [admin |-> afterRole = "admin", moderator |-> afterRole = "moderator",
     lecturer |-> afterRole = "lecturer"]

\* onUserCreate without customClaims.approved = true in the admin branch.
onUserCreateClaimsNoApproved(role) ==
    [admin |-> role = "admin", moderator |-> role = "moderator", lecturer |-> role = "lecturer"]

\* onUserCreate: the role flags, and approved: true added in the admin branch.
onUserCreateClaims(role) ==
    LET flags == [admin |-> role = "admin", moderator |-> role = "moderator",
                  lecturer |-> role = "lecturer"]
    IN  IF role = "admin" THEN flags @@ ("approved" :> TRUE) ELSE flags

\* approveUser: the role flags with approved: true.
approveUserClaims(role) ==
    [admin |-> role = "admin", moderator |-> role = "moderator", lecturer |-> role = "lecturer",
     approved |-> TRUE]

\* createFirstAdmin attaching the role flags without approved: true.
firstAdminClaimsNoApproved ==
    [admin |-> TRUE, moderator |-> FALSE, lecturer |-> FALSE]

\* createFirstAdmin: the literal admin claims.
firstAdminClaims ==
    [admin |-> TRUE, moderator |-> FALSE, lecturer |-> FALSE, approved |-> TRUE]

\* ------------------------------------------------------------------ document accessor
\* getDocById: throws when the document does not exist, else yields its data.
getDocById(coll, id) ==
    IF coll[id] = NoDoc THEN [threw |-> TRUE] ELSE [threw |-> FALSE, data |-> coll[id]]

\* updateDoc and deleteDoc yield whether they threw and the collection they
\* leave behind.
\* updateDoc as a set with merge: an absent document is created from the patch.
updateDocUpsert(coll, id, data) ==
    IF coll[id] = NoDoc
    THEN [threw |-> FALSE, coll |-> [coll EXCEPT ![id] = data]]
    ELSE [threw |-> FALSE, coll |-> [coll EXCEPT ![id] = data @@ @]]

\* updateDoc: throws when the document does not exist, else overwrites the
\* fields of the patch and keeps the others.
updateDoc(coll, id, data) ==
    IF coll[id] = NoDoc
    THEN [threw |-> TRUE, coll |-> coll]
    ELSE [threw |-> FALSE, coll |-> [coll EXCEPT ![id] = data @@ @]]

\* deleteDoc: throws when the document does not exist, else removes it.
deleteDoc(coll, id) ==
    IF coll[id] = NoDoc
    THEN [threw |-> TRUE, coll |-> coll]
    ELSE [threw |-> FALSE, coll |-> [coll EXCEPT ![id] = NoDoc]]

\* queryDocs('users', [{field: 'role', operator: '==', value}]): the matching ids.
queryUsersByRole(value) ==
    {u \in Uids : users[u] # NoDoc /\ users[u].role = value}

\* ------------------------------------------------------------------ role authority
\* requiredRoles is [isArray |-> TRUE, items |-> set] or [isArray |-> FALSE, item |-> role].
rolesArray(requiredRoles) ==
    IF requiredRoles.isArray THEN requiredRoles.items ELSE {requiredRoles.item}

\* verifyUserRole without the admin bypass of the approval check.
verifyUserRoleNoBypass(userId, requiredRoles) ==
    LET got == getDocById(users, userId)
    IN  IF got.threw
        THEN [threw |-> FALSE, value |-> FALSE]
        ELSE LET user == got.data
                 hasRole == user.role \in rolesArray(requiredRoles)
                 isApproved == user.approved = TRUE
             IN  [threw |-> FALSE, value |-> hasRole /\ isApproved]

\* verifyUserRole: [threw, value]; the catch turns a failed lookup into false.
verifyUserRole(userId, requiredRoles) ==
    LET got == getDocById(users, userId)
    IN  IF got.threw
        THEN [threw |-> FALSE, value |-> FALSE]
        ELSE LET user == got.data
                 hasRole == user.role \in rolesArray(requiredRoles)
                 isApproved == user.approved = TRUE \/ user.role = "admin"
             IN  [threw |-> FALSE, value |-> hasRole /\ isApproved]

\* isUserApproved: the approval rule without the role membership.
isUserApproved(userId) ==
    LET got == getDocById(users, userId)
    IN  IF got.threw THEN FALSE
        ELSE got.data.approved = TRUE \/ got.data.role = "admin"

\* context.auth.token.admin: the admin claim of the caller's identity.
tokenIsAdmin(caller) ==
    /\ caller # NullId
    /\ claims[caller] # NoClaims
    /\ claims[caller].admin

\* ------------------------------------------------------------------ events and processes
CreateEvent(u, role) ==
    [kind |-> "create", id |-> u, before |-> "-", after |-> role]

\* The update handler reads only before.role and after.role, and of those only
\* whether they differ and, if so, after.role.
UpdateEvent(u, beforeDoc, afterDoc) ==
    IF beforeDoc.role = afterDoc.role
    THEN [kind |-> "update", id |-> u, before |-> "same", after |-> "same"]
    ELSE [kind |-> "update", id |-> u, before |-> beforeDoc.role, after |-> afterDoc.role]

One(x) == SetToBag({x})

Proc(op, pc, caller, uid, role) ==
    [op |-> op, pc |-> pc, caller |-> caller, uid |-> uid, role |-> role]

\* The outcome of the invocation that ended in the last step: the response a
\* callable gave its caller (thrown: the error raised inside the handler's try,
\* code: the code the caller receives), or the return of a trigger.
NoReply == [op |-> "none"]

Reply(op, caller, target, arg, thrown, code) ==
    [op |-> op, caller |-> caller, target |-> target, arg |-> arg,
     thrown |-> thrown, code |-> code]

Busy == BagCardinality(inflight)

\* uids an in-flight createFirstAdmin will still ask the identity provider for
Reserved ==
    BagCardinality([p \in {q \in BagToSet(inflight) :
                              q.op = "createFirstAdmin" /\ q.pc = "createUser"}
                    |-> inflight[p]])

Quiescent == inflight = EmptyBag /\ events = EmptyBag

\* ------------------------------------------------------------------ initial state
Init ==
    /\ nIdent = 0
    /\ users = [u \in Uids |-> NoDoc]
    /\ claims = [u \in Uids |-> NoClaims]
    /\ attached = [u \in Uids |-> {}]
    /\ assessments = [a \in AssessmentIds |-> NoDoc]
    /\ events = EmptyBag
    /\ inflight = EmptyBag
    /\ reply = NoReply
    /\ calls = 0

\* ------------------------------------------------------------------ registration
\* A client signs up with the identity provider: a new identity, no document yet.
SignUp ==
    /\ nIdent + Reserved < MaxUsers
    /\ nIdent' = nIdent + 1
    /\ reply' = NoReply
    /\ UNCHANGED <<users, claims, attached, assessments, events, inflight, calls>>

UserDataInputs == {[role |-> r] : r \in validRoles} \cup {[displayName |-> "n"]}

\* createUserRecord(userId, userData): role defaults to lecturer, only admins
\* are auto-approved; the document is written under the identity's id.
createUserRecord(userId, userData) ==
    LET userRole == IF "role" \in DOMAIN userData THEN userData.role ELSE "lecturer"
        isAdmin == userRole = "admin"
        approved == isAdmin
        userDoc == [role |-> userRole, approved |-> approved, customClaims |-> Undefined]
    IN  /\ userId \in Identities
        /\ users[userId] = NoDoc
        /\ \A p \in BagToSet(inflight) : ~(p.op = "createFirstAdmin" /\ p.uid = userId)
        /\ users' = [users EXCEPT ![userId] = userDoc]
        /\ events' = events (+) One(CreateEvent(userId, userRole))
        /\ reply' = Reply("createUserRecord", NullId, userId, userRole, "none", "ok")
        /\ UNCHANGED <<nIdent, claims, attached, assessments, inflight, calls>>

\* ------------------------------------------------------------------ callables: errors
\* The catch block of each callable: whatever was thrown inside the try, the
\* HttpsError raised on purpose included, is rethrown as 'internal'.
approveUserCatch(thrown) == IF thrown = "none" THEN "ok" ELSE "internal"

updateUserRoleCatch(thrown) == IF thrown = "none" THEN "ok" ELSE "internal"

createFirstAdminCatch(thrown) == IF thrown = "none" THEN "ok" ELSE "internal"

createAssessmentCatch(thrown) == IF thrown = "none" THEN "ok" ELSE "internal"

\* ------------------------------------------------------------------ approveUser
ApproveInputs ==
    {[userId |-> u, approved |-> b] : u \in Uids, b \in BOOLEAN}
        \cup {[userId |-> 1], [approved |-> TRUE]}

\* The checks of approveUser up to and including updateDoc's existence check.
approveUserCheck(caller, data) ==
    IF caller = NullId THEN "unauthenticated"
    ELSE IF ~tokenIsAdmin(caller) THEN "permission-denied"
    ELSE IF "userId" \notin DOMAIN data \/ "approved" \notin DOMAIN data THEN "invalid-argument"
    ELSE IF updateDoc(users, data.userId, [approved |-> data.approved]).threw THEN "not-found"
    ELSE "none"

\* approveUser that on approved: false also clears the user's custom claims.
ApproveUserRevoking(caller, data) ==
    LET thrown == approveUserCheck(caller, data)
    IN  IF thrown # "none"
        THEN /\ calls < MaxCalls
             /\ calls' = calls + 1
             /\ reply' = Reply("approveUser", caller, NullId, "-", thrown, approveUserCatch(thrown))
             /\ UNCHANGED <<nIdent, users, claims, attached, assessments, events, inflight>>
        ELSE /\ calls < MaxCalls
             /\ calls' = calls + 1
             /\ users' = updateDoc(users, data.userId, [approved |-> data.approved]).coll
             /\ events' = events (+) One(UpdateEvent(data.userId, users[data.userId],
                                                     users[data.userId]))
             /\ IF data.approved
                THEN /\ Busy < MaxInFlight
                     /\ inflight' = inflight (+)
                            One(Proc("approveUser", "get", caller, data.userId, "-"))
                     /\ reply' = NoReply
                     /\ claims' = claims
                ELSE /\ inflight' = inflight
                     /\ reply' = Reply("approveUser", caller, data.userId, "false", "none",
                                       approveUserCatch("none"))
                     /\ claims' = [claims EXCEPT ![data.userId] = NoClaims]
             /\ UNCHANGED <<nIdent, attached, assessments>>

\* approveUser, first step: the checks and updateDoc('users', userId, {approved}).
ApproveUser(caller, data) ==
    LET thrown == approveUserCheck(caller, data)
    IN  IF thrown # "none"
        THEN /\ calls < MaxCalls
             /\ calls' = calls + 1
             /\ reply' = Reply("approveUser", caller, NullId, "-", thrown, approveUserCatch(thrown))
             /\ UNCHANGED <<nIdent, users, claims, attached, assessments, events, inflight>>
        ELSE /\ calls < MaxCalls
             /\ calls' = calls + 1
             /\ users' = updateDoc(users, data.userId, [approved |-> data.approved]).coll
             /\ events' = events (+) One(UpdateEvent(data.userId, users[data.userId],
                                                     users[data.userId]))
             /\ IF data.approved
                THEN /\ Busy < MaxInFlight
                     /\ inflight' = inflight (+)
                            One(Proc("approveUser", "get", caller, data.userId, "-"))
                     /\ reply' = NoReply
                ELSE /\ inflight' = inflight
                     /\ reply' = Reply("approveUser", caller, data.userId, "false", "none",
                                       approveUserCatch("none"))
             /\ UNCHANGED <<nIdent, claims, attached, assessments>>

\* approveUser, approved branch: getDocById and role = user.role || 'lecturer'.
ApproveUserGet(p) ==
    /\ p.op = "approveUser" /\ p.pc = "get"
    /\ LET user == getDocById(users, p.uid).data
       IN  inflight' = (inflight (-) One(p)) (+)
                One(Proc("approveUser", "claims", p.caller, p.uid, user.role))
    /\ reply' = NoReply
    /\ UNCHANGED <<nIdent, users, claims, attached, assessments, events, calls>>

\* approveUser, approved branch: setCustomUserClaims and the response.
ApproveUserClaims(p) ==
    /\ p.op = "approveUser" /\ p.pc = "claims"
    /\ claims' = [claims EXCEPT ![p.uid] = approveUserClaims(p.role)]
    /\ attached' = [attached EXCEPT ![p.uid] = @ \cup {approveUserClaims(p.role)}]
    /\ inflight' = inflight (-) One(p)
    /\ reply' = Reply("approveUser", p.caller, p.uid, "true", "none", approveUserCatch("none"))
    /\ UNCHANGED <<nIdent, users, assessments, events, calls>>

\* approveUser(userId, true) writing the opposite of the stored approval flag.
approveUserAppliedToggle(us, cl, userId) ==
    LET us1 == [us EXCEPT ![userId].approved = ~us[userId].approved]
        user == us1[userId]
    IN  [users |-> us1, claims |-> [cl EXCEPT ![userId] = approveUserClaims(user.role)]]

\* What one accepted approveUser(userId, true) does to the two stores when it
\* runs without interleaving: updateDoc {approved: true}, getDocById, and
\* setCustomUserClaims with the stored role.
approveUserApplied(us, cl, userId) ==
    LET us1 == [us EXCEPT ![userId].approved = TRUE]
        user == us1[userId]
    IN  [users |-> us1, claims |-> [cl EXCEPT ![userId] = approveUserClaims(user.role)]]

\* ------------------------------------------------------------------ updateUserRole
RoleInputs ==
    {[userId |-> u, role |-> r] : u \in Uids, r \in validRoles}
        \cup {[userId |-> 1, role |-> "student"], [userId |-> 1], [role |-> "admin"]}

updateUserRoleCheck(caller, data) ==
    IF caller = NullId THEN "unauthenticated"
    ELSE IF ~tokenIsAdmin(caller) THEN "permission-denied"
    ELSE IF "userId" \notin DOMAIN data \/ "role" \notin DOMAIN data THEN "invalid-argument"
    ELSE IF data.role \notin validRoles THEN "invalid-argument"
    ELSE IF updateDoc(users, data.userId, [role |-> data.role]).threw THEN "not-found"
    ELSE "none"

\* updateUserRole writing the role before it validates it.
UpdateUserRoleEager(caller, data) ==
    LET thrown == updateUserRoleCheck(caller, data)
    IN  IF thrown # "none"
        THEN /\ calls < MaxCalls
             /\ calls' = calls + 1
             /\ reply' = Reply("updateUserRole", caller, NullId, "-", thrown,
                               updateUserRoleCatch(thrown))
             /\ IF /\ thrown = "invalid-argument"
                   /\ "userId" \in DOMAIN data /\ "role" \in DOMAIN data
                   /\ ~updateDoc(users, data.userId, [role |-> data.role]).threw
                THEN /\ users' = updateDoc(users, data.userId, [role |-> data.role]).coll
                     /\ events' = events (+) One(UpdateEvent(data.userId, users[data.userId],
                                                             users'[data.userId]))
                ELSE UNCHANGED <<users, events>>
             /\ UNCHANGED <<nIdent, claims, attached, assessments, inflight>>
        ELSE /\ calls < MaxCalls
             /\ Busy < MaxInFlight
             /\ calls' = calls + 1
             /\ users' = updateDoc(users, data.userId, [role |-> data.role]).coll
             /\ events' = events (+) One(UpdateEvent(data.userId, users[data.userId],
                                                     users'[data.userId]))
             /\ inflight' = inflight (+)
                    One(Proc("updateUserRole", "claims", caller, data.userId, data.role))
             /\ reply' = NoReply
             /\ UNCHANGED <<nIdent, claims, attached, assessments>>

\* updateUserRole, first step: the checks and updateDoc('users', userId, {role}).
UpdateUserRole(caller, data) ==
    LET thrown == updateUserRoleCheck(caller, data)
    IN  IF thrown # "none"
        THEN /\ calls < MaxCalls
             /\ calls' = calls + 1
             /\ reply' = Reply("updateUserRole", caller, NullId, "-", thrown,
                               updateUserRoleCatch(thrown))
             /\ UNCHANGED <<nIdent, users, claims, attached, assessments, events, inflight>>
        ELSE /\ calls < MaxCalls
             /\ Busy < MaxInFlight
             /\ calls' = calls + 1
             /\ users' = updateDoc(users, data.userId, [role |-> data.role]).coll
             /\ events' = events (+) One(UpdateEvent(data.userId, users[data.userId],
                                                     users'[data.userId]))
             /\ inflight' = inflight (+)
                    One(Proc("updateUserRole", "claims", caller, data.userId, data.role))
             /\ reply' = NoReply
             /\ UNCHANGED <<nIdent, claims, attached, assessments>>

\* updateUserRole, second step: setCustomUserClaims and the response.
UpdateUserRoleClaims(p) ==
    /\ p.op = "updateUserRole" /\ p.pc = "claims"
    /\ claims' = [claims EXCEPT ![p.uid] = updateUserRoleClaims(p.role)]
    /\ attached' = [attached EXCEPT ![p.uid] = @ \cup {updateUserRoleClaims(p.role)}]
    /\ inflight' = inflight (-) One(p)
    /\ reply' = Reply("updateUserRole", p.caller, p.uid, p.role, "none",
                      updateUserRoleCatch("none"))
    /\ UNCHANGED <<nIdent, users, assessments, events, calls>>

\* ------------------------------------------------------------------ createFirstAdmin
FirstAdminInputs ==
    {Null, [email |-> "e"], [email |-> "e", password |-> "p", displayName |-> "n"]}

\* createFirstAdmin as if check and creation were one transaction: the check
\* also fails while another invocation is between its check and its write.
createFirstAdminCheckExclusive(data) ==
    IF data = Null THEN "invalid-argument"
    ELSE IF {"email", "password", "displayName"} \ DOMAIN data # {} THEN "invalid-argument"
    ELSE IF Cardinality(queryUsersByRole("admin")) > 0 THEN "failed-precondition"
    ELSE IF \E q \in BagToSet(inflight) : q.op = "createFirstAdmin" THEN "failed-precondition"
    ELSE "none"

createFirstAdminCheck(data) ==
    IF data = Null THEN "invalid-argument"
    ELSE IF {"email", "password", "displayName"} \ DOMAIN data # {} THEN "invalid-argument"
    ELSE IF Cardinality(queryUsersByRole("admin")) > 0 THEN "failed-precondition"
    ELSE "none"

\* createFirstAdmin, first step: the argument checks and the query for admins.
CreateFirstAdmin(data) ==
    LET thrown == createFirstAdminCheck(data)
    IN  IF thrown # "none"
        THEN /\ calls < MaxCalls
             /\ calls' = calls + 1
             /\ reply' = Reply("createFirstAdmin", NullId, NullId, "-", thrown,
                               createFirstAdminCatch(thrown))
             /\ UNCHANGED <<nIdent, users, claims, attached, assessments, events, inflight>>
        ELSE /\ calls < MaxCalls
             /\ Busy < MaxInFlight
             /\ nIdent + Reserved < MaxUsers
             /\ calls' = calls + 1
             /\ inflight' = inflight (+)
                    One(Proc("createFirstAdmin", "createUser", NullId, NullId, "admin"))
             /\ reply' = NoReply
             /\ UNCHANGED <<nIdent, users, claims, attached, assessments, events>>

\* createFirstAdmin: admin.auth().createUser.
CreateFirstAdminUser(p) ==
    /\ p.op = "createFirstAdmin" /\ p.pc = "createUser"
    /\ nIdent' = nIdent + 1
    /\ inflight' = (inflight (-) One(p)) (+)
            One(Proc("createFirstAdmin", "claims", NullId, nIdent + 1, "admin"))
    /\ reply' = NoReply
    /\ UNCHANGED <<users, claims, attached, assessments, events, calls>>

\* createFirstAdmin: setCustomUserClaims(userRecord.uid, customClaims).
CreateFirstAdminClaims(p) ==
    /\ p.op = "createFirstAdmin" /\ p.pc = "claims"
    /\ claims' = [claims EXCEPT ![p.uid] = firstAdminClaims]
    /\ attached' = [attached EXCEPT ![p.uid] = @ \cup {firstAdminClaims}]
    /\ inflight' = (inflight (-) One(p)) (+)
            One(Proc("createFirstAdmin", "doc", NullId, p.uid, "admin"))
    /\ reply' = NoReply
    /\ UNCHANGED <<nIdent, users, assessments, events, calls>>

\* createFirstAdmin: the user document is set, and the response.
CreateFirstAdminDoc(p) ==
    /\ p.op = "createFirstAdmin" /\ p.pc = "doc"
    /\ users' = [users EXCEPT ![p.uid] =
                    [role |-> "admin", approved |-> TRUE, customClaims |-> firstAdminClaims]]
    /\ events' = events (+) One(CreateEvent(p.uid, "admin"))
    /\ inflight' = inflight (-) One(p)
    /\ reply' = Reply("createFirstAdmin", NullId, p.uid, "admin", "none",
                      createFirstAdminCatch("none"))
    /\ UNCHANGED <<nIdent, claims, attached, assessments, calls>>

\* ------------------------------------------------------------------ onUserCreate
\* onUserCreate for a snapshot whose role is not admin: no claims, one update.
OnUserCreateOther(e) ==
    /\ e.kind = "create" /\ e.after # "admin"
    /\ LET isAdmin == e.after = "admin"
           approved == isAdmin
           newDoc == [users[e.id] EXCEPT !.approved = approved, !.customClaims = Null]
       IN  /\ users' = [users EXCEPT ![e.id] = newDoc]
           /\ events' = (events (-) One(e)) (+) One(UpdateEvent(e.id, users[e.id], newDoc))
    /\ reply' = Reply("onUserCreate", NullId, e.id, e.after, "none", "null")
    /\ UNCHANGED <<nIdent, claims, attached, assessments, inflight, calls>>

\* onUserCreate for an admin snapshot, first step: setCustomUserClaims.
OnUserCreateAdmin(e) ==
    /\ e.kind = "create" /\ e.after = "admin"
    /\ Busy < MaxInFlight
    /\ claims' = [claims EXCEPT ![e.id] = onUserCreateClaims(e.after)]
    /\ attached' = [attached EXCEPT ![e.id] = @ \cup {onUserCreateClaims(e.after)}]
    /\ events' = events (-) One(e)
    /\ inflight' = inflight (+) One(Proc("onUserCreate", "update", NullId, e.id, e.after))
    /\ reply' = NoReply
    /\ UNCHANGED <<nIdent, users, assessments, calls>>

\* onUserCreate for an admin snapshot, second step: the document update.
OnUserCreateUpdate(p) ==
    /\ p.op = "onUserCreate" /\ p.pc = "update"
    /\ LET isAdmin == p.role = "admin"
           approved == isAdmin
           newDoc == [users[p.uid] EXCEPT !.approved = approved,
                                          !.customClaims = onUserCreateClaims(p.role)]
       IN  /\ users' = [users EXCEPT ![p.uid] = newDoc]
           /\ events' = events (+) One(UpdateEvent(p.uid, users[p.uid], newDoc))
    /\ inflight' = inflight (-) One(p)
    /\ reply' = Reply("onUserCreate", NullId, p.uid, p.role, "none", "null")
    /\ UNCHANGED <<nIdent, claims, attached, assessments, calls>>

\* ------------------------------------------------------------------ onUserUpdate
\* onUserUpdate when the role did not change: nothing is written.
OnUserUpdateSame(e) ==
    /\ e.kind = "update" /\ e.before = e.after
    /\ events' = events (-) One(e)
    /\ reply' = Reply("onUserUpdate", NullId, e.id, "-", "none", "null")
    /\ UNCHANGED <<nIdent, users, claims, attached, assessments, inflight, calls>>

\* onUserUpdate writing the mirror first, before any claims are attached.
OnUserUpdateRoleMirrorFirst(e) ==
    /\ e.kind = "update" /\ e.before # e.after
    /\ Busy < MaxInFlight
    /\ LET newDoc == [users[e.id] EXCEPT !.customClaims = onUserUpdateClaims(e.after)]
       IN  /\ users' = [users EXCEPT ![e.id] = newDoc]
           /\ events' = (events (-) One(e)) (+) One(UpdateEvent(e.id, users[e.id], newDoc))
    /\ inflight' = inflight (+) One(Proc("onUserUpdate", "update", NullId, e.id, e.after))
    /\ reply' = NoReply
    /\ UNCHANGED <<nIdent, claims, attached, assessments, calls>>

\* onUserUpdate when the role changed, first step: setCustomUserClaims.
OnUserUpdateRole(e) ==
    /\ e.kind = "update" /\ e.before # e.after
    /\ Busy < MaxInFlight
    /\ claims' = [claims EXCEPT ![e.id] = onUserUpdateClaims(e.after)]
    /\ attached' = [attached EXCEPT ![e.id] = @ \cup {onUserUpdateClaims(e.after)}]
    /\ events' = events (-) One(e)
    /\ inflight' = inflight (+) One(Proc("onUserUpdate", "update", NullId, e.id, e.after))
    /\ reply' = NoReply
    /\ UNCHANGED <<nIdent, users, assessments, calls>>

\* onUserUpdate writing the snapshot's role back with the mirror.
OnUserUpdateWriteRole(p) ==
    /\ p.op = "onUserUpdate" /\ p.pc = "update"
    /\ LET newDoc == [users[p.uid] EXCEPT !.role = p.role,
                                          !.customClaims = onUserUpdateClaims(p.role)]
       IN  /\ users' = [users EXCEPT ![p.uid] = newDoc]
           /\ events' = events (+) One(UpdateEvent(p.uid, users[p.uid], newDoc))
    /\ inflight' = inflight (-) One(p)
    /\ reply' = Reply("onUserUpdate", NullId, p.uid, p.role, "none", "null")
    /\ UNCHANGED <<nIdent, claims, attached, assessments, calls>>

\* onUserUpdate when the role changed, second step: only customClaims (and
\* updatedAt) are written to the document.
OnUserUpdateWrite(p) ==
    /\ p.op = "onUserUpdate" /\ p.pc = "update"
    /\ LET newDoc == [users[p.uid] EXCEPT !.customClaims = onUserUpdateClaims(p.role)]
       IN  /\ users' = [users EXCEPT ![p.uid] = newDoc]
           /\ events' = events (+) One(UpdateEvent(p.uid, users[p.uid], newDoc))
    /\ inflight' = inflight (-) One(p)
    /\ reply' = Reply("onUserUpdate", NullId, p.uid, p.role, "none", "null")
    /\ UNCHANGED <<nIdent, claims, attached, assessments, calls>>

\* ------------------------------------------------------------------ createAssessment
AssessmentInputs ==
    {[title |-> "T", content |-> "C", type |-> "quiz"], [title |-> "", content |-> "C", type |-> "quiz"],
     [title |-> "T", content |-> "", type |-> "quiz"], [title |-> "T", content |-> "C", type |-> ""]}

\* Assessment ids are generated by the store, in order.
nextAssessmentId ==
    Cardinality({a \in AssessmentIds : assessments[a] # NoDoc}) + 1

PendingCreates ==
    BagCardinality([p \in {q \in BagToSet(inflight) : q.op = "createAssessment"}
                    |-> inflight[p]])

createAssessmentCheck(caller, data) ==
    IF caller = NullId THEN "unauthenticated"
    ELSE IF ~verifyUserRole(caller, [isArray |-> TRUE, items |-> {"lecturer", "admin"}]).value
         THEN "permission-denied"
    ELSE IF data.title = "" \/ data.content = "" \/ data.type = "" THEN "invalid-argument"
    ELSE "none"

\* createAssessment, first step: the role check and the argument check.
CreateAssessment(caller, data) ==
    LET thrown == createAssessmentCheck(caller, data)
    IN  IF thrown # "none"
        THEN /\ calls < MaxCalls
             /\ calls' = calls + 1
             /\ reply' = Reply("createAssessment", caller, NullId, "-", thrown,
                               createAssessmentCatch(thrown))
             /\ UNCHANGED <<nIdent, users, claims, attached, assessments, events, inflight>>
        ELSE /\ calls < MaxCalls
             /\ Busy < MaxInFlight
             /\ nextAssessmentId + PendingCreates <= MaxAssessments
             /\ calls' = calls + 1
             /\ inflight' = inflight (+)
                    One(Proc("createAssessment", "create", caller, caller, "-"))
             /\ reply' = NoReply
             /\ UNCHANGED <<nIdent, users, claims, attached, assessments, events>>

\* The document event of a created assessment: the snapshot's lecturerId is all
\* onNewAssessment reads.
AssessmentCreateEvent(a, doc) ==
    [kind |-> "assessmentCreate", id |-> a, lecturerId |-> doc.lecturerId]

\* The document event of an updated assessment, reduced to what onAssessmentUpdated
\* reads: whether the status differs, the lecturer to look up, and the moderator
\* to look up (NullId when `afterData.moderatorId && before !== after` is false).
\* An event whose status is unchanged carries no ids: the handler reads none.
AssessmentUpdateEvent(a, before, after) ==
    IF before.status = after.status
    THEN [kind |-> "assessmentUpdate", id |-> a, statusChanged |-> FALSE,
          lecturerId |-> NullId, moderatorId |-> NullId]
    ELSE [kind |-> "assessmentUpdate", id |-> a, statusChanged |-> TRUE,
          lecturerId |-> after.lecturerId,
          moderatorId |-> IF after.moderatorId # NullId
                             /\ before.moderatorId # after.moderatorId
                          THEN after.moderatorId ELSE NullId]

\* createAssessment, second step: createDoc('assessments', assessmentData).
CreateAssessmentDoc(p) ==
    /\ p.op = "createAssessment" /\ p.pc = "create"
    /\ assessments' = [assessments EXCEPT ![nextAssessmentId] =
            [status |-> "draft", lecturerId |-> p.caller, moderatorId |-> NullId,
             feedback |-> NullFeedback]]
    /\ inflight' = inflight (-) One(p)
    /\ events' = events (+) One(AssessmentCreateEvent(nextAssessmentId,
                                     assessments'[nextAssessmentId]))
    /\ reply' = Reply("createAssessment", p.caller, nextAssessmentId, "-", "none",
                      createAssessmentCatch("none"))
    /\ UNCHANGED <<nIdent, users, claims, attached, calls>>

\* ------------------------------------------------------------------ moderateAssessment
moderateAssessmentCatch(thrown) == IF thrown = "none" THEN "ok" ELSE "internal"

\* validStatuses with 'draft' admitted.
validStatusesWithDraft == {"approved", "rejected", "pending_changes", "draft"}

validStatuses == {"approved", "rejected", "pending_changes"}

\* data of moderateAssessment: feedback absent, a text, or the empty string;
\* a status outside validStatuses; assessmentId or status missing.
ModerateInputs ==
    {[assessmentId |-> a, status |-> "approved"] : a \in AssessmentIds}
        \cup {[assessmentId |-> a, status |-> "rejected", feedback |-> "F"] : a \in AssessmentIds}
        \cup {[assessmentId |-> a, status |-> "pending_changes", feedback |-> ""] :
                 a \in AssessmentIds}
        \cup {[assessmentId |-> 1, status |-> "shipped"], [status |-> "approved"],
              [assessmentId |-> 1], [assessmentId |-> 1, status |-> "draft"]}

\* moderateAssessment without the verifyUserRole check.
moderateAssessmentCheckNoRole(caller, data) ==
    IF caller = NullId THEN "unauthenticated"
    ELSE IF "assessmentId" \notin DOMAIN data \/ "status" \notin DOMAIN data
         THEN "invalid-argument"
    ELSE IF data.status \notin validStatuses THEN "invalid-argument"
    ELSE "none"

moderateAssessmentCheck(caller, data) ==
    IF caller = NullId THEN "unauthenticated"
    ELSE IF ~verifyUserRole(caller, [isArray |-> TRUE, items |-> {"moderator", "admin"}]).value
         THEN "permission-denied"
    ELSE IF "assessmentId" \notin DOMAIN data \/ "status" \notin DOMAIN data
         THEN "invalid-argument"
    ELSE IF data.status \notin validStatuses THEN "invalid-argument"
    ELSE "none"

\* moderateAssessment, first step: the role check and the argument checks.
ModerateAssessment(caller, data) ==
    LET thrown == moderateAssessmentCheck(caller, data)
    IN  IF thrown # "none"
        THEN /\ calls < MaxCalls
             /\ calls' = calls + 1
             /\ reply' = Reply("moderateAssessment", caller, NullId, "-", thrown,
                               moderateAssessmentCatch(thrown))
             /\ UNCHANGED <<nIdent, users, claims, attached, assessments, events, inflight>>
        ELSE /\ calls < MaxCalls
             /\ Busy < MaxInFlight
             /\ calls' = calls + 1
             /\ inflight' = inflight (+)
                    One(Proc("moderateAssessment", "update", caller, data.assessmentId,
                             data.status) @@ ("data" :> data))
             /\ reply' = NoReply
             /\ UNCHANGED <<nIdent, users, claims, attached, assessments, events>>

\* moderateAssessment, second step: updateDoc('assessments', assessmentId,
\* updateData); updateData carries feedback only when `feedback` is truthy, and
\* updateDoc throws when the document does not exist.
ModerateAssessmentUpdate(p) ==
    /\ p.op = "moderateAssessment" /\ p.pc = "update"
    /\ inflight' = inflight (-) One(p)
    /\ LET hasFeedback == "feedback" \in DOMAIN p.data /\ p.data.feedback # ""
           statusData == [status |-> p.data.status, moderatorId |-> p.caller]
           updateData == IF hasFeedback
                         THEN statusData @@ [feedback |-> p.data.feedback]
                         ELSE statusData
           updated == updateDoc(assessments, p.uid, updateData)
       IN
       IF updated.threw
       THEN /\ assessments' = updated.coll
            /\ events' = events
            /\ reply' = Reply("moderateAssessment", p.caller, p.uid, p.role, "not-found",
                              moderateAssessmentCatch("not-found"))
       ELSE /\ assessments' = updated.coll
            /\ events' = events (+) One(AssessmentUpdateEvent(p.uid, assessments[p.uid],
                                                             assessments'[p.uid]))
            /\ reply' = Reply("moderateAssessment", p.caller, p.uid, p.role, "none",
                              moderateAssessmentCatch("none"))
    /\ UNCHANGED <<nIdent, users, claims, attached, calls>>

\* ------------------------------------------------------------------ assessment triggers
\* One getDocById('users', id) inside its own try/catch: the lookup is skipped when
\* the id is absent, fails when the store rejects the read or holds no such
\* document (the inner catch logs the error), and succeeds otherwise.
lookupUser(id, rejected) ==
    IF id = NullId THEN "skipped"
    ELSE IF rejected \/ getDocById(users, id).threw THEN "failed" ELSE "ok"

\* What a trigger run leaves behind: the value it returns to the platform and how
\* each of its lookups ended.
TriggerReply(op, id, lecturer, moderator) ==
    Reply(op, NullId, id, "-", "none", "null")
        @@ [lecturerLookup |-> lecturer, moderatorLookup |-> moderator]

\* onNewAssessment with the lecturer read rejected by the store or not.
onNewAssessmentRun(e, lecturerRejected) ==
    /\ e.kind = "assessmentCreate"
    /\ events' = events (-) One(e)
    /\ reply' = TriggerReply("onNewAssessment", e.id,
                             lookupUser(e.lecturerId, lecturerRejected), "skipped")
    /\ UNCHANGED <<nIdent, users, claims, attached, assessments, inflight, calls>>

\* onAssessmentUpdated with both reads in one try block: a failed lecturer read
\* skips the moderator read.
onAssessmentUpdatedRunAbort(e, lecturerRejected, moderatorRejected) ==
    /\ e.kind = "assessmentUpdate"
    /\ events' = events (-) One(e)
    /\ reply' = IF e.statusChanged
                THEN TriggerReply("onAssessmentUpdated", e.id,
                                  lookupUser(e.lecturerId, lecturerRejected),
                                  IF lookupUser(e.lecturerId, lecturerRejected) = "failed"
                                  THEN "skipped"
                                  ELSE lookupUser(e.moderatorId, moderatorRejected))
                ELSE TriggerReply("onAssessmentUpdated", e.id, "skipped", "skipped")
    /\ UNCHANGED <<nIdent, users, claims, attached, assessments, inflight, calls>>

\* onAssessmentUpdated with each of its two reads rejected by the store or not.
\* Both lookups sit in their own try/catch after one another; neither happens
\* when the status is unchanged.
onAssessmentUpdatedRun(e, lecturerRejected, moderatorRejected) ==
    /\ e.kind = "assessmentUpdate"
    /\ events' = events (-) One(e)
    /\ reply' = IF e.statusChanged
                THEN TriggerReply("onAssessmentUpdated", e.id,
                                  lookupUser(e.lecturerId, lecturerRejected),
                                  lookupUser(e.moderatorId, moderatorRejected))
                ELSE TriggerReply("onAssessmentUpdated", e.id, "skipped", "skipped")
    /\ UNCHANGED <<nIdent, users, claims, attached, assessments, inflight, calls>>

\* The triggers when the store answers every read.
OnNewAssessment(e) == onNewAssessmentRun(e, FALSE)

OnAssessmentUpdated(e) == onAssessmentUpdatedRun(e, FALSE, FALSE)

\* ------------------------------------------------------------------ read-only callables
\* Request data that carries none of the fields a handler looks at.
NoFields == [none |-> TRUE]

getUserProfileCatch(thrown) == IF thrown = "none" THEN "ok" ELSE "internal"

getUsersCatch(thrown) == IF thrown = "none" THEN "ok" ELSE "internal"

getAssessmentsCatch(thrown) == IF thrown = "none" THEN "ok" ELSE "internal"

getAssessmentByIdCatch(thrown) == IF thrown = "none" THEN "ok" ELSE "internal"

ProfileInputs == {[userId |-> u] : u \in Uids} \cup {NoFields}

\* getUserProfile: userId = data.userId || context.auth.uid, then getDocById.
getUserProfileCheck(caller, data) ==
    IF caller = NullId THEN "unauthenticated"
    ELSE LET userId == IF "userId" \in DOMAIN data THEN data.userId ELSE caller
         IN  IF getDocById(users, userId).threw THEN "not-found" ELSE "none"

GetUserProfile(caller, data) ==
    LET thrown == getUserProfileCheck(caller, data)
    IN  /\ calls < MaxCalls
        /\ calls' = calls + 1
        /\ reply' = Reply("getUserProfile", caller, NullId, "-", thrown,
                          getUserProfileCatch(thrown))
        /\ UNCHANGED <<nIdent, users, claims, attached, assessments, events, inflight>>

\* getUsers: admin claim required, then queryDocs.
getUsersCheck(caller) ==
    IF caller = NullId THEN "unauthenticated"
    ELSE IF ~tokenIsAdmin(caller) THEN "permission-denied"
    ELSE "none"

GetUsers(caller) ==
    LET thrown == getUsersCheck(caller)
    IN  /\ calls < MaxCalls
        /\ calls' = calls + 1
        /\ reply' = Reply("getUsers", caller, NullId, "-", thrown, getUsersCatch(thrown))
        /\ UNCHANGED <<nIdent, users, claims, attached, assessments, events, inflight>>

\* getAssessments: any authenticated caller, then queryDocs.
getAssessmentsCheck(caller) ==
    IF caller = NullId THEN "unauthenticated" ELSE "none"

GetAssessments(caller) ==
    LET thrown == getAssessmentsCheck(caller)
    IN  /\ calls < MaxCalls
        /\ calls' = calls + 1
        /\ reply' = Reply("getAssessments", caller, NullId, "-", thrown,
                          getAssessmentsCatch(thrown))
        /\ UNCHANGED <<nIdent, users, claims, attached, assessments, events, inflight>>

AssessmentIdInputs == {[assessmentId |-> a] : a \in AssessmentIds} \cup {NoFields}

\* getAssessmentById: assessmentId required, then getDocById.
getAssessmentByIdCheck(caller, data) ==
    IF caller = NullId THEN "unauthenticated"
    ELSE IF "assessmentId" \notin DOMAIN data THEN "invalid-argument"
    ELSE IF getDocById(assessments, data.assessmentId).threw THEN "not-found"
    ELSE "none"

GetAssessmentById(caller, data) ==
    LET thrown == getAssessmentByIdCheck(caller, data)
    IN  /\ calls < MaxCalls
        /\ calls' = calls + 1
        /\ reply' = Reply("getAssessmentById", caller, NullId, "-", thrown,
                          getAssessmentByIdCatch(thrown))
        /\ UNCHANGED <<nIdent, users, claims, attached, assessments, events, inflight>>

\* ------------------------------------------------------------------ specification
Callers == Identities \cup {NullId}

Next ==
    \/ SignUp
    \/ \E u \in Uids, d \in UserDataInputs : createUserRecord(u, d)
    \/ \E c \in Callers, d \in ApproveInputs : ApproveUser(c, d)
    \/ \E p \in BagToSet(inflight) : ApproveUserGet(p)
    \/ \E p \in BagToSet(inflight) : ApproveUserClaims(p)
    \/ \E c \in Callers, d \in RoleInputs : UpdateUserRole(c, d)
    \/ \E p \in BagToSet(inflight) : UpdateUserRoleClaims(p)
    \/ \E d \in FirstAdminInputs : CreateFirstAdmin(d)
    \/ \E p \in BagToSet(inflight) : CreateFirstAdminUser(p)
    \/ \E p \in BagToSet(inflight) : CreateFirstAdminClaims(p)
    \/ \E p \in BagToSet(inflight) : CreateFirstAdminDoc(p)
    \/ \E e \in BagToSet(events) : OnUserCreateOther(e)
    \/ \E e \in BagToSet(events) : OnUserCreateAdmin(e)
    \/ \E p \in BagToSet(inflight) : OnUserCreateUpdate(p)
    \/ \E e \in BagToSet(events) : OnUserUpdateSame(e)
    \/ \E e \in BagToSet(events) : OnUserUpdateRole(e)
    \/ \E p \in BagToSet(inflight) : OnUserUpdateWrite(p)
    \/ \E c \in Callers, d \in AssessmentInputs : CreateAssessment(c, d)
    \/ \E p \in BagToSet(inflight) : CreateAssessmentDoc(p)
    \/ \E c \in Callers, d \in ModerateInputs : ModerateAssessment(c, d)
    \/ \E p \in BagToSet(inflight) : ModerateAssessmentUpdate(p)
    \/ \E e \in BagToSet(events) : OnNewAssessment(e)
    \/ \E e \in BagToSet(events) : OnAssessmentUpdated(e)
    \/ \E c \in Callers, d \in ProfileInputs : GetUserProfile(c, d)
    \/ \E c \in Callers : GetUsers(c)
    \/ \E c \in Callers : GetAssessments(c)
    \/ \E c \in Callers, d \in AssessmentIdInputs : GetAssessmentById(c, d)

Spec == Init /\ [][Next]_vars

\* ------------------------------------------------------------------ failing calls
\* A store or identity-provider call of a synchronization path rejects. A
\* trigger's catch logs and returns null; createFirstAdmin's catch rethrows
\* 'internal'. Whatever the handler did before the failing call stays done.

\* onUserUpdate: setCustomUserClaims rejects, so the document is not written.
OnUserUpdateRoleFail(e) ==
    /\ e.kind = "update" /\ e.before # e.after
    /\ events' = events (-) One(e)
    /\ reply' = Reply("onUserUpdate", NullId, e.id, e.after, "provider-error", "null")
    /\ UNCHANGED <<nIdent, users, claims, attached, assessments, inflight, calls>>

\* onUserUpdate: the document update rejects after the claims were attached.
OnUserUpdateWriteFail(p) ==
    /\ p.op = "onUserUpdate" /\ p.pc = "update"
    /\ inflight' = inflight (-) One(p)
    /\ reply' = Reply("onUserUpdate", NullId, p.uid, p.role, "store-error", "null")
    /\ UNCHANGED <<nIdent, users, claims, attached, assessments, events, calls>>

\* onUserCreate (admin): setCustomUserClaims rejects.
OnUserCreateAdminFail(e) ==
    /\ e.kind = "create" /\ e.after = "admin"
    /\ events' = events (-) One(e)
    /\ reply' = Reply("onUserCreate", NullId, e.id, e.after, "provider-error", "null")
    /\ UNCHANGED <<nIdent, users, claims, attached, assessments, inflight, calls>>

\* onUserCreate (admin): the document update rejects after the claims were attached.
OnUserCreateUpdateFail(p) ==
    /\ p.op = "onUserCreate" /\ p.pc = "update"
    /\ inflight' = inflight (-) One(p)
    /\ reply' = Reply("onUserCreate", NullId, p.uid, p.role, "store-error", "null")
    /\ UNCHANGED <<nIdent, users, claims, attached, assessments, events, calls>>

\* onUserCreate (other roles): the document update rejects.
OnUserCreateOtherFail(e) ==
    /\ e.kind = "create" /\ e.after # "admin"
    /\ events' = events (-) One(e)
    /\ reply' = Reply("onUserCreate", NullId, e.id, e.after, "store-error", "null")
    /\ UNCHANGED <<nIdent, users, claims, attached, assessments, inflight, calls>>

\* createFirstAdmin: createUser rejects (no identity is created).
CreateFirstAdminUserFail(p) ==
    /\ p.op = "createFirstAdmin" /\ p.pc = "createUser"
    /\ inflight' = inflight (-) One(p)
    /\ reply' = Reply("createFirstAdmin", NullId, NullId, "-", "provider-error",
                      createFirstAdminCatch("provider-error"))
    /\ UNCHANGED <<nIdent, users, claims, attached, assessments, events, calls>>

\* createFirstAdmin: setCustomUserClaims rejects; the identity stays, no document.
CreateFirstAdminClaimsFail(p) ==
    /\ p.op = "createFirstAdmin" /\ p.pc = "claims"
    /\ inflight' = inflight (-) One(p)
    /\ reply' = Reply("createFirstAdmin", NullId, p.uid, "-", "provider-error",
                      createFirstAdminCatch("provider-error"))
    /\ UNCHANGED <<nIdent, users, claims, attached, assessments, events, calls>>

\* createFirstAdmin: the document set rejects after the claims were attached.
CreateFirstAdminDocFail(p) ==
    /\ p.op = "createFirstAdmin" /\ p.pc = "doc"
    /\ inflight' = inflight (-) One(p)
    /\ reply' = Reply("createFirstAdmin", NullId, p.uid, "-", "store-error",
                      createFirstAdminCatch("store-error"))
    /\ UNCHANGED <<nIdent, users, claims, attached, assessments, events, calls>>

SyncFailure ==
    \/ \E e \in BagToSet(events) : OnUserUpdateRoleFail(e)
    \/ \E p \in BagToSet(inflight) : OnUserUpdateWriteFail(p)
    \/ \E e \in BagToSet(events) : OnUserCreateAdminFail(e)
    \/ \E p \in BagToSet(inflight) : OnUserCreateUpdateFail(p)
    \/ \E e \in BagToSet(events) : OnUserCreateOtherFail(e)
    \/ \E p \in BagToSet(inflight) : CreateFirstAdminUserFail(p)
    \/ \E p \in BagToSet(inflight) : CreateFirstAdminClaimsFail(p)
    \/ \E p \in BagToSet(inflight) : CreateFirstAdminDocFail(p)

\* The steps that read or write user documents and claims: registration, the
\* user callables and the user triggers. (The assessment callables and the
\* read-only callables touch neither; in Next they only use up call budget.)
UserNext ==
    \/ SignUp
    \/ \E u \in Uids, d \in UserDataInputs : createUserRecord(u, d)
    \/ \E c \in Callers, d \in ApproveInputs : ApproveUser(c, d)
    \/ \E p \in BagToSet(inflight) : ApproveUserGet(p)
    \/ \E p \in BagToSet(inflight) : ApproveUserClaims(p)
    \/ \E c \in Callers, d \in RoleInputs : UpdateUserRole(c, d)
    \/ \E p \in BagToSet(inflight) : UpdateUserRoleClaims(p)
    \/ \E d \in FirstAdminInputs : CreateFirstAdmin(d)
    \/ \E p \in BagToSet(inflight) : CreateFirstAdminUser(p)
    \/ \E p \in BagToSet(inflight) : CreateFirstAdminClaims(p)
    \/ \E p \in BagToSet(inflight) : CreateFirstAdminDoc(p)
    \/ \E e \in BagToSet(events) : OnUserCreateOther(e)
    \/ \E e \in BagToSet(events) : OnUserCreateAdmin(e)
    \/ \E p \in BagToSet(inflight) : OnUserCreateUpdate(p)
    \/ \E e \in BagToSet(events) : OnUserUpdateSame(e)
    \/ \E e \in BagToSet(events) : OnUserUpdateRole(e)
    \/ \E p \in BagToSet(inflight) : OnUserUpdateWrite(p)

NextWithFailures == UserNext \/ SyncFailure

\* The user side of the program with the calls of its synchronization paths
\* allowed to fail.
FaultSpec == Init /\ [][NextWithFailures]_vars

\* ------------------------------------------------------------------ provisioned deployment
\* What an account can look like once its registration has come to rest: signed
\* up only, a registered admin after onUserCreate, a registered lecturer or
\* moderator after onUserCreate, and the latter after approveUser(u, true).
SignedUpOnly == [doc |-> NoDoc, claims |-> NoClaims, attached |-> {}]

RegisteredAdmin ==
    [doc |-> [role |-> "admin", approved |-> TRUE,
              customClaims |-> onUserCreateClaims("admin")],
     claims |-> onUserCreateClaims("admin"),
     attached |-> {onUserCreateClaims("admin")}]

RegisteredPending(role) ==
    [doc |-> [role |-> role, approved |-> FALSE, customClaims |-> Null],
     claims |-> NoClaims, attached |-> {}]

RegisteredApproved(role) ==
    [doc |-> [role |-> role, approved |-> TRUE, customClaims |-> Null],
     claims |-> approveUserClaims(role), attached |-> {approveUserClaims(role)}]

Accounts ==
    {SignedUpOnly, RegisteredPending("lecturer"), RegisteredApproved("lecturer"),
     RegisteredApproved("moderator")}

\* A deployment at rest: uid 1 is a registered admin, every other identity has
\* one of the accounts above, and the first n assessments are the admin's drafts.
ProvisionedInit ==
    /\ nIdent = MaxUsers
    /\ \E acc \in [Uids -> Accounts \cup {RegisteredAdmin}] :
          /\ acc[1] = RegisteredAdmin
          /\ \A u \in Uids \ {1} : acc[u] \in Accounts
          /\ users = [u \in Uids |-> acc[u].doc]
          /\ claims = [u \in Uids |-> acc[u].claims]
          /\ attached = [u \in Uids |-> acc[u].attached]
    /\ \E n \in 0..MaxAssessments :
          assessments = [a \in AssessmentIds |->
                           IF a <= n
                           THEN [status |-> "draft", lecturerId |-> 1,
                                 moderatorId |-> NullId, feedback |-> NullFeedback]
                           ELSE NoDoc]
    /\ events = EmptyBag
    /\ inflight = EmptyBag
    /\ reply = NoReply
    /\ calls = 0

\* onNewAssessment: the store rejects the lecturer read.
OnNewAssessmentFail(e) ==
    /\ e.kind = "assessmentCreate" /\ e.lecturerId # NullId
    /\ onNewAssessmentRun(e, TRUE)

\* onAssessmentUpdated: the store rejects the lecturer read, the moderator read,
\* or both.
OnAssessmentUpdatedFail(e) ==
    /\ e.kind = "assessmentUpdate" /\ e.statusChanged
    /\ \E lecturerRejected, moderatorRejected \in BOOLEAN :
          /\ lecturerRejected \/ moderatorRejected
          /\ lecturerRejected => e.lecturerId # NullId
          /\ moderatorRejected => e.moderatorId # NullId
          /\ onAssessmentUpdatedRun(e, lecturerRejected, moderatorRejected)

\* A store or identity-provider call inside a trigger rejects.
TriggerFailure ==
    \/ \E e \in BagToSet(events) : OnUserUpdateRoleFail(e)
    \/ \E p \in BagToSet(inflight) : OnUserUpdateWriteFail(p)
    \/ \E e \in BagToSet(events) : OnUserCreateAdminFail(e)
    \/ \E p \in BagToSet(inflight) : OnUserCreateUpdateFail(p)
    \/ \E e \in BagToSet(events) : OnUserCreateOtherFail(e)
    \/ \E e \in BagToSet(events) : OnNewAssessmentFail(e)
    \/ \E e \in BagToSet(events) : OnAssessmentUpdatedFail(e)

\* The operations that write documents, and the four triggers their writes set off.
ProvisionedNext ==
    \/ \E u \in Uids, d \in UserDataInputs : createUserRecord(u, d)
    \/ \E c \in Callers, d \in ApproveInputs : ApproveUser(c, d)
    \/ \E p \in BagToSet(inflight) : ApproveUserGet(p)
    \/ \E p \in BagToSet(inflight) : ApproveUserClaims(p)
    \/ \E c \in Callers, d \in RoleInputs : UpdateUserRole(c, d)
    \/ \E p \in BagToSet(inflight) : UpdateUserRoleClaims(p)
    \/ \E e \in BagToSet(events) : OnUserCreateOther(e)
    \/ \E e \in BagToSet(events) : OnUserCreateAdmin(e)
    \/ \E p \in BagToSet(inflight) : OnUserCreateUpdate(p)
    \/ \E e \in BagToSet(events) : OnUserUpdateSame(e)
    \/ \E e \in BagToSet(events) : OnUserUpdateRole(e)
    \/ \E p \in BagToSet(inflight) : OnUserUpdateWrite(p)
    \/ \E c \in Callers, d \in AssessmentInputs : CreateAssessment(c, d)
    \/ \E p \in BagToSet(inflight) : CreateAssessmentDoc(p)
    \/ \E c \in Callers, d \in ModerateInputs : ModerateAssessment(c, d)
    \/ \E p \in BagToSet(inflight) : ModerateAssessmentUpdate(p)
    \/ \E e \in BagToSet(events) : OnNewAssessment(e)
    \/ \E e \in BagToSet(events) : OnAssessmentUpdated(e)
    \/ TriggerFailure

\* The program at work in a provisioned deployment, its triggers' calls allowed
\* to fail.
ProvisionedSpec == ProvisionedInit /\ [][ProvisionedNext]_vars

\* ------------------------------------------------------------------ properties
HasDoc(u) == users[u] # NoDoc

\* The document carries a claims mirror (customClaims set to a record).
HasMirror(u) == HasDoc(u) /\ users[u].customClaims \notin {Undefined, Null}

RoleFlags(role) ==
    [admin |-> role = "admin", moderator |-> role = "moderator", lecturer |-> role = "lecturer"]

\* C1: in every reachable state every user document whose role is admin has
\* approved = true.
C1_AdminImpliesApproved ==
    \A u \in Uids : (HasDoc(u) /\ users[u].role = "admin") => users[u].approved = TRUE

RequiredRoleInputs ==
    {[isArray |-> TRUE, items |-> S] : S \in SUBSET validRoles}
        \cup {[isArray |-> FALSE, item |-> r] : r \in validRoles}

\* C2: for every user id and every required role set (one role or a list),
\* verifyUserRole never raises, and returns true exactly when the document
\* exists, its role is in the set, and it is approved or an admin; so a failed
\* lookup yields false.
C2_VerifyUserRole ==
    \A u \in Uids, R \in RequiredRoleInputs :
        LET r == verifyUserRole(u, R)
            required == IF R.isArray THEN R.items ELSE {R.item}
        IN  /\ r.threw = FALSE
            /\ r.value = (/\ HasDoc(u)
                          /\ users[u].role \in required
                          /\ (users[u].approved = TRUE \/ users[u].role = "admin"))

\* C2's case: createAssessment has passed its role check for an approved lecturer
\* while another id has no document (its lookup fails).
C2_Witness ==
    /\ \E p \in BagToSet(inflight) :
          /\ p.op = "createAssessment"
          /\ HasDoc(p.caller) /\ users[p.caller].role = "lecturer" /\ users[p.caller].approved
    /\ \E v \in Uids : ~HasDoc(v)

\* C3: in every quiescent state a claims mirror that is present equals the
\* record computed from the same document: one flag per role, and approved
\* true exactly when the role is admin or the document is approved.
C3_MirrorMatchesDocument ==
    Quiescent =>
        \A u \in Uids :
            HasMirror(u) =>
                users[u].customClaims =
                    RoleFlags(users[u].role) @@
                        ("approved" :> (users[u].role = "admin" \/ users[u].approved = TRUE))

\* C4: in every quiescent state the claims attached in the identity provider
\* equal the mirror field of the user's document, when the mirror is present.
C4_ClaimsEqualMirror ==
    Quiescent => \A u \in Uids : HasMirror(u) => claims[u] = users[u].customClaims

\* The claims record the Synchronizer is specified to attach for a role and a
\* document approval flag.
SyncClaimsOk(c, role, docApproved) ==
    /\ c # NoClaims
    /\ \A r \in validRoles : c[r] = (r = role)
    /\ ("approved" \in DOMAIN c /\ c.approved = TRUE) <=> (role = "admin" \/ docApproved = TRUE)

\* C5: every step in which updateUserRole or the onUserUpdate trigger attaches
\* claims for a changed role leaves claims with exactly the new role's flag true
\* and with approved true exactly when the new role is admin or the document is
\* approved.
C5_RoleChangeClaims ==
    [][/\ \A p \in BagToSet(inflight) :
              UpdateUserRoleClaims(p) =>
                  SyncClaimsOk(claims'[p.uid], p.role, users[p.uid].approved)
       /\ \A e \in BagToSet(events) :
              OnUserUpdateRole(e) =>
                  SyncClaimsOk(claims'[e.id], e.after, users[e.id].approved)]_vars

AdminClaimsLiteral ==
    [admin |-> TRUE, moderator |-> FALSE, lecturer |-> FALSE, approved |-> TRUE]

\* C6: onUserCreate for an admin snapshot attaches {admin: true, moderator:
\* false, lecturer: false, approved: true} and leaves the document approved with
\* that record as mirror; for any other role it attaches no claims and leaves
\* the document unapproved with a null mirror.
C6_OnUserCreate ==
    [][/\ \A e \in BagToSet(events) :
              OnUserCreateAdmin(e) => claims'[e.id] = AdminClaimsLiteral
       /\ \A p \in BagToSet(inflight) :
              OnUserCreateUpdate(p) =>
                  /\ users'[p.uid].approved = TRUE
                  /\ users'[p.uid].customClaims = AdminClaimsLiteral
                  /\ claims' = claims
       /\ \A e \in BagToSet(events) :
              OnUserCreateOther(e) =>
                  /\ claims' = claims
                  /\ users'[e.id].approved = FALSE
                  /\ users'[e.id].customClaims = Null]_vars

\* C6's case: the trigger has just finished for an admin document, with the
\* claims attached and mirrored.
C6_Witness ==
    /\ reply.op = "onUserCreate" /\ reply.arg = "admin"
    /\ claims[reply.target] = AdminClaimsLiteral
    /\ users[reply.target].customClaims = AdminClaimsLiteral
    /\ users[reply.target].approved = TRUE

\* C7: an identity gets its first claims only from approveUser(u, true), or at
\* the creation of an admin (onUserCreate for an admin snapshot,
\* createFirstAdmin); nothing else attaches claims to an un-claimed user.
C7_NoClaimsBeforeApproval ==
    [][\A u \in Uids :
          (claims[u] = NoClaims /\ claims'[u] # NoClaims) =>
              \/ \E p \in BagToSet(inflight) : p.uid = u /\ ApproveUserClaims(p)
              \/ \E e \in BagToSet(events) : e.id = u /\ OnUserCreateAdmin(e)
              \/ \E p \in BagToSet(inflight) : p.uid = u /\ CreateFirstAdminClaims(p)]_vars

ModeratorClaimsLiteral == [admin |-> FALSE, moderator |-> TRUE, lecturer |-> FALSE]

\* C8: changing a user's role from lecturer to moderator leaves the identity
\* provider with {admin: false, moderator: true, lecturer: false}: both the
\* callable's and the trigger's claims write attach exactly that record.
C8_LecturerToModerator ==
    [][/\ \A p \in BagToSet(inflight) :
              (UpdateUserRoleClaims(p) /\ p.role = "moderator") =>
                  claims'[p.uid] = ModeratorClaimsLiteral
       /\ \A e \in BagToSet(events) :
              (OnUserUpdateRole(e) /\ e.before = "lecturer" /\ e.after = "moderator") =>
                  claims'[e.id] = ModeratorClaimsLiteral]_vars

\* C8's case: updateUserRole(u, moderator) has answered, the lecturer ->
\* moderator update event is still to be delivered, and the claims are set.
C8_Witness ==
    /\ reply.op = "updateUserRole" /\ reply.arg = "moderator" /\ reply.code = "ok"
    /\ users[reply.target].role = "moderator"
    /\ claims[reply.target] = ModeratorClaimsLiteral
    /\ BagIn([kind |-> "update", id |-> reply.target, before |-> "lecturer",
              after |-> "moderator"], events)

\* The steps that are not new invocations: event deliveries and the further
\* steps of the processes in flight.
Progress ==
    \/ \E p \in BagToSet(inflight) :
          \/ ApproveUserGet(p) \/ ApproveUserClaims(p) \/ UpdateUserRoleClaims(p)
          \/ CreateFirstAdminUser(p) \/ CreateFirstAdminClaims(p) \/ CreateFirstAdminDoc(p)
          \/ OnUserCreateUpdate(p) \/ OnUserUpdateWrite(p) \/ CreateAssessmentDoc(p)
          \/ ModerateAssessmentUpdate(p)
    \/ \E e \in BagToSet(events) :
          \/ OnUserCreateOther(e) \/ OnUserCreateAdmin(e)
          \/ OnUserUpdateSame(e) \/ OnUserUpdateRole(e)
          \/ OnNewAssessment(e) \/ OnAssessmentUpdated(e)

\* Every started handler runs on and every event is delivered.
FairSpec == Spec /\ WF_vars(Progress)

CountWhere(bag, Test(_)) ==
    BagCardinality([x \in {y \in BagToSet(bag) : Test(y)} |-> bag[x]])

IsRoleChange(e) == e.kind = "update" /\ e.before # e.after
IsSameRole(e) == e.kind = "update" /\ e.before = e.after
IsUpdateProc(p) == p.op = "onUserUpdate"

\* What the user-update reaction still has to do: a role-change event costs a
\* claims write, a document write and the event that write causes.
UpdateWork ==
    3 * CountWhere(events, IsRoleChange) + 2 * CountWhere(inflight, IsUpdateProc)
        + CountWhere(events, IsSameRole)

OnUserUpdateStep ==
    \/ \E e \in BagToSet(events) : OnUserUpdateSame(e) \/ OnUserUpdateRole(e)
    \/ \E p \in BagToSet(inflight) : OnUserUpdateWrite(p)

\* Step part of C9: onUserUpdate's document write leaves role and approved as they are and
\* causes an update event with an unchanged role; the trigger run for such an
\* event writes to neither store and causes no event; so every step of the
\* reaction lowers the work left (finitely many invocations), and once handlers
\* run on and events are delivered the system comes to rest with nothing pending.
C9_StepsLowerWork ==
    [][/\ \A p \in BagToSet(inflight) :
              OnUserUpdateWrite(p) =>
                  /\ users'[p.uid].role = users[p.uid].role
                  /\ users'[p.uid].approved = users[p.uid].approved
                  /\ claims' = claims
                  /\ events' = events (+) One([kind |-> "update", id |-> p.uid,
                                               before |-> "same", after |-> "same"])
       /\ \A e \in BagToSet(events) :
              OnUserUpdateSame(e) =>
                  users' = users /\ claims' = claims /\ events' = events (-) One(e)
       /\ OnUserUpdateStep => UpdateWork' < UpdateWork]_vars

\* Under fair scheduling the system eventually stays quiescent.
C9_ComesToRest == <>[]Quiescent

\* C9: a role change starts no trigger loop: every step of onUserUpdate lowers
\* the work left, its own write changes neither role nor claims, and the
\* system comes to rest after finitely many invocations.
C9_NoTriggerLoop == C9_StepsLowerWork /\ C9_ComesToRest

\* C9's case: a role change has been fully processed: the trigger wrote the
\* mirror for the new role and the event of that write has been delivered too.
C9_Witness ==
    /\ Quiescent
    /\ reply.op = "onUserUpdate" /\ reply.arg = "-"
    /\ HasMirror(reply.target)
    /\ "approved" \notin DOMAIN users[reply.target].customClaims
    /\ users[reply.target].customClaims = claims[reply.target]

DraftAssessment(lecturer) ==
    [status |-> "draft", lecturerId |-> lecturer, moderatorId |-> NullId,
     feedback |-> NullFeedback]

\* C10: createAssessment by a caller whose document is an unapproved lecturer
\* answers PermissionDenied and creates nothing; by an approved lecturer or an
\* admin with title, content and type it goes on to create an assessment with
\* status draft, lecturerId the caller, moderatorId null and feedback null, and
\* answers ok.
C10_CreateAssessment ==
    [][/\ \A c \in Callers, d \in AssessmentInputs :
              (/\ CreateAssessment(c, d)
               /\ c # NullId /\ HasDoc(c)
               /\ users[c].role = "lecturer" /\ users[c].approved = FALSE) =>
                  /\ reply'.code = "permission-denied"
                  /\ assessments' = assessments
                  /\ inflight' = inflight
       /\ \A c \in Callers, d \in AssessmentInputs :
              (/\ CreateAssessment(c, d)
               /\ c # NullId /\ HasDoc(c)
               /\ \/ users[c].role = "admin"
                  \/ users[c].role = "lecturer" /\ users[c].approved = TRUE
               /\ d.title # "" /\ d.content # "" /\ d.type # "") =>
                  inflight' = inflight (+) One(Proc("createAssessment", "create", c, c, "-"))
       /\ \A p \in BagToSet(inflight) :
              CreateAssessmentDoc(p) =>
                  /\ \E a \in AssessmentIds :
                        /\ assessments[a] = NoDoc
                        /\ assessments' = [assessments EXCEPT ![a] = DraftAssessment(p.caller)]
                  /\ reply'.code = "ok"]_vars

ModeratorRoles == [isArray |-> TRUE, items |-> {"moderator", "admin"}]

\* C11: moderateAssessment by an approved moderator or admin with a status
\* outside {approved, rejected, pending_changes} answers InvalidArgument and
\* leaves every assessment document as it was.
C11_ModerateInvalidStatus ==
    [][\A c \in Callers, d \in ModerateInputs :
          (/\ ModerateAssessment(c, d)
           /\ c # NullId /\ verifyUserRole(c, ModeratorRoles).value
           /\ "assessmentId" \in DOMAIN d /\ "status" \in DOMAIN d
           /\ d.status \notin {"approved", "rejected", "pending_changes"}) =>
              /\ reply'.code = "invalid-argument"
              /\ assessments' = assessments
              /\ inflight' = inflight]_vars

\* C12: the write of a successful moderateAssessment sets status to the given
\* status and moderatorId to the caller, sets feedback to the supplied value
\* when the request carries feedback, and otherwise leaves feedback, and every
\* other field, as stored.
C12_ModerateEffect ==
    [][\A p \in BagToSet(inflight) :
          (ModerateAssessmentUpdate(p) /\ assessments[p.uid] # NoDoc) =>
              /\ reply'.code = "ok"
              /\ assessments'[p.uid].status = p.data.status
              /\ assessments'[p.uid].moderatorId = p.caller
              /\ assessments'[p.uid].lecturerId = assessments[p.uid].lecturerId
              /\ assessments'[p.uid].feedback =
                    IF "feedback" \in DOMAIN p.data THEN p.data.feedback
                    ELSE assessments[p.uid].feedback
              /\ \A a \in AssessmentIds \ {p.uid} : assessments'[a] = assessments[a]]_vars

CompleteFirstAdminData(d) ==
    d # Null /\ {"email", "password", "displayName"} \subseteq DOMAIN d

\* C13: createFirstAdmin with email, password and displayName, called while a
\* user document has role admin, answers FailedPrecondition and creates neither
\* an identity nor a user document.
C13_FirstAdminRejected ==
    [][\A d \in FirstAdminInputs :
          (/\ CreateFirstAdmin(d)
           /\ CompleteFirstAdminData(d)
           /\ \E u \in Uids : HasDoc(u) /\ users[u].role = "admin") =>
              /\ reply'.code = "failed-precondition"
              /\ nIdent' = nIdent
              /\ users' = users
              /\ inflight' = inflight]_vars

FirstAdminDoc ==
    [role |-> "admin", approved |-> TRUE,
     customClaims |-> [admin |-> TRUE, moderator |-> FALSE, lecturer |-> FALSE,
                       approved |-> TRUE]]

\* The new admin as createFirstAdmin leaves it: document, claims equal to the
\* document's mirror, and the admin role check passing.
FirstAdminInPlace(u) ==
    /\ u \in Identities
    /\ users[u] = FirstAdminDoc
    /\ claims[u] = users[u].customClaims
    /\ verifyUserRole(u, [isArray |-> TRUE, items |-> {"admin"}]).value

\* C14: createFirstAdmin called when no document has role admin goes on to
\* create an identity and, under the same id, a document with role admin and
\* approved true whose mirror {admin: true, moderator: false, lecturer: false,
\* approved: true} equals the attached claims; both steps of the onUserCreate
\* trigger leave that as it is, and verifyUserRole(u, ['admin']) holds.
C14_FirstAdminCreated ==
    [][/\ \A d \in FirstAdminInputs :
              (/\ CreateFirstAdmin(d)
               /\ CompleteFirstAdminData(d)
               /\ ~\E u \in Uids : HasDoc(u) /\ users[u].role = "admin") =>
                  inflight' = inflight (+)
                      One(Proc("createFirstAdmin", "createUser", NullId, NullId, "admin"))
       /\ \A p \in BagToSet(inflight) :
              CreateFirstAdminUser(p) => nIdent' = nIdent + 1 /\ users' = users
       /\ \A p \in BagToSet(inflight) :
              CreateFirstAdminDoc(p) =>
                  /\ users[p.uid] = NoDoc
                  /\ FirstAdminInPlace(p.uid)'
                  /\ reply'.code = "ok"
       /\ \A e \in BagToSet(events) :
              (OnUserCreateAdmin(e) /\ FirstAdminInPlace(e.id)) => FirstAdminInPlace(e.id)'
       /\ \A p \in BagToSet(inflight) :
              (OnUserCreateUpdate(p) /\ FirstAdminInPlace(p.uid)) => FirstAdminInPlace(p.uid)']_vars

\* C14's case: the onUserCreate trigger is running for a document that carried
\* its mirror from the start (so createFirstAdmin wrote it) and has attached its
\* claims; document, claims and role check are as createFirstAdmin left them.
C14_Witness ==
    \E p \in BagToSet(inflight) :
        /\ p.op = "onUserCreate" /\ p.pc = "update"
        /\ FirstAdminInPlace(p.uid)

\* The stores after one approveUser(u, true) and after two in succession.
ApprovedOnce(u) == approveUserApplied(users, claims, u)
ApprovedTwice(u) == approveUserApplied(ApprovedOnce(u).users, ApprovedOnce(u).claims, u)

\* C15: from every reachable state and for every existing user u, two
\* approveUser(u, true) calls in succession leave the same documents and the
\* same claims as one; and the handler's steps do what that one call is taken
\* to do: the document write sets approved to true and causes only an event
\* with an unchanged role, the claims write attaches the stored role's record.
C15_ApproveIdempotent ==
    /\ [](\A u \in Uids : HasDoc(u) => ApprovedTwice(u) = ApprovedOnce(u))
    /\ [][/\ \A c \in Callers, d \in ApproveInputs :
                 (/\ ApproveUser(c, d)
                  /\ approveUserCheck(c, d) = "none"
                  /\ d.approved = TRUE) =>
                     /\ users' = approveUserApplied(users, claims, d.userId).users
                     /\ claims' = claims
                     /\ events' = events (+) One([kind |-> "update", id |-> d.userId,
                                                  before |-> "same", after |-> "same"])
          /\ \A p \in BagToSet(inflight) :
                 (ApproveUserGet(p) \/ ApproveUserClaims(p)) => users' = users
          /\ \A p \in BagToSet(inflight) :
                 (ApproveUserClaims(p) /\ users[p.uid].role = p.role) =>
                     claims' = approveUserApplied(users, claims, p.uid).claims]_vars

\* C15's case: a second approveUser(u, true) is about to attach claims to a
\* lecturer who already carries the approved lecturer claims of a first one.
C15_Witness ==
    \E p \in BagToSet(inflight) :
        /\ p.op = "approveUser" /\ p.pc = "claims" /\ p.role = "lecturer"
        /\ inflight = One(p)
        /\ users[p.uid].approved = TRUE
        /\ claims[p.uid] = approveUserClaims("lecturer")
        /\ calls = 2

\* The mirror of u's document differs after the step and is then a claims record.
MirrorWritten(u) ==
    /\ users'[u] # NoDoc
    /\ users'[u].customClaims \notin {Undefined, Null}
    /\ users[u] = NoDoc \/ users'[u].customClaims # users[u].customClaims

\* C16: the claims are attached before the mirror is written. In every
\* reachable state, failed writes included, a mirror present in a document is
\* a record that has been attached to that identity; every step that writes a
\* mirror is the document write of onUserUpdate, onUserCreate or
\* createFirstAdmin and writes a record already attached; and a failing call
\* changes neither store.
C16_ClaimsBeforeMirror ==
    /\ [](\A u \in Uids : HasMirror(u) => users[u].customClaims \in attached[u])
    /\ [][/\ \A u \in Uids :
                 MirrorWritten(u) =>
                     /\ users'[u].customClaims \in attached[u]
                     /\ \E p \in BagToSet(inflight) :
                           /\ p.uid = u
                           /\ \/ OnUserUpdateWrite(p)
                              \/ OnUserCreateUpdate(p)
                              \/ CreateFirstAdminDoc(p)
          /\ (users' # users \/ claims' # claims) => ~SyncFailure]_vars

\* C16's case: the document write of onUserUpdate has just failed: the new
\* role's claims are attached while the document carries no such mirror, and
\* another document carries a mirror.
C16_Witness ==
    /\ reply.op = "onUserUpdate" /\ reply.thrown = "store-error"
    /\ claims[reply.target] = onUserUpdateClaims(reply.arg)
    /\ users[reply.target].customClaims # claims[reply.target]
    /\ \E v \in Uids : HasMirror(v)

\* C17: the role or the approved field of an existing user document changes
\* value only in a step of approveUser or updateUserRole called for that user by
\* a caller holding the admin claim; no trigger and no other callable changes
\* them.
C17_OnlyAdminChangesRole ==
    [][\A u \in Uids :
          (/\ HasDoc(u)
           /\ \/ users'[u].role # users[u].role
              \/ users'[u].approved # users[u].approved) =>
              \/ \E c \in Callers, d \in ApproveInputs :
                    /\ tokenIsAdmin(c)
                    /\ "userId" \in DOMAIN d /\ d.userId = u
                    /\ ApproveUser(c, d)
              \/ \E c \in Callers, d \in RoleInputs :
                    /\ tokenIsAdmin(c)
                    /\ "userId" \in DOMAIN d /\ d.userId = u
                    /\ UpdateUserRole(c, d)]_vars

\* The callables other than createFirstAdmin.
GuardedCallables ==
    {"getAssessments", "getAssessmentById", "createAssessment", "moderateAssessment",
     "getUserProfile", "getUsers", "approveUser", "updateUserRole"}

\* C18: a callable other than createFirstAdmin answers Unauthenticated when
\* called without a caller identity, PermissionDenied when its role check
\* fails and InvalidArgument when an argument is missing or invalid; Internal is
\* answered only for errors of the store or the identity provider.
C18_ErrorCodes ==
    reply.op \in GuardedCallables =>
        /\ reply.caller = NullId => reply.code = "unauthenticated"
        /\ reply.thrown = "permission-denied" => reply.code = "permission-denied"
        /\ reply.thrown = "invalid-argument" => reply.code = "invalid-argument"
        /\ reply.code = "internal" =>
              reply.thrown \notin {"unauthenticated", "permission-denied", "invalid-argument"}

FirstAdminInFlight == \E q \in BagToSet(inflight) : q.op = "createFirstAdmin"

\* C19: the bootstrap is a check followed by a creation, not one atomic step: a
\* createFirstAdmin call that finds no admin document is let through also while
\* another invocation is between its own check and its document write, and the
\* document write is made without a second look, also when an admin document
\* has appeared meanwhile, so that two admin documents then exist.
C19_BootstrapRace ==
    [][/\ \A d \in FirstAdminInputs :
              (/\ CreateFirstAdmin(d)
               /\ CompleteFirstAdminData(d)
               /\ queryUsersByRole("admin") = {}
               /\ FirstAdminInFlight) =>
                  /\ reply'.op = "none"
                  /\ BagCardinality(inflight') = BagCardinality(inflight) + 1
       /\ \A p \in BagToSet(inflight) :
              (CreateFirstAdminDoc(p) /\ queryUsersByRole("admin") # {}) =>
                  /\ users'[p.uid].role = "admin"
                  /\ Cardinality({u \in Uids : users'[u] # NoDoc /\ users'[u].role = "admin"})
                        = Cardinality(queryUsersByRole("admin")) + 1]_vars

\* C19's case: two admin documents, both written by createFirstAdmin: each
\* carries its mirror although its creation event has not been handled yet.
C19_Witness ==
    \E u, v \in Uids :
        /\ u # v
        /\ users[u] = FirstAdminDoc /\ users[v] = FirstAdminDoc
        /\ BagIn(CreateEvent(u, "admin"), events)
        /\ BagIn(CreateEvent(v, "admin"), events)

\* A claims record as updateUserRole and onUserUpdate write it: the three role
\* flags and no approved field.
RoleChangeRecord(c) == c \notin {NoClaims, Undefined, Null} /\ "approved" \notin DOMAIN c

\* C20: once every updateUserRole call and every onUserUpdate trigger has
\* finished, claims and mirror written by them name the role stored in the
\* document: the flag of that role is the one that is true.
C20_RoleFlagConverges ==
    Quiescent =>
        \A u \in Uids :
            HasDoc(u) =>
                /\ RoleChangeRecord(claims[u]) => claims[u] = RoleFlags(users[u].role)
                /\ RoleChangeRecord(users[u].customClaims) =>
                      users[u].customClaims = RoleFlags(users[u].role)

\* approveUser(u, true) has completed for u: only its last step attaches a
\* record with approved: true and admin: false.
ApprovedByCall(u) ==
    /\ claims[u] # NoClaims
    /\ "approved" \in DOMAIN claims[u] /\ claims[u].approved = TRUE
    /\ claims[u].admin = FALSE

\* C21: once approveUser(u, true) has completed for a non-admin user, the
\* approved field of the document stays true until an approveUser(u, false)
\* call: no other step, however late the onUserCreate trigger is delivered,
\* makes it false.
C21_ApprovalSticks ==
    [][\A u \in Uids :
          (/\ HasDoc(u) /\ users[u].role # "admin"
           /\ ApprovedByCall(u)
           /\ users[u].approved = TRUE
           /\ users'[u].approved # TRUE) =>
              \E c \in Callers : ApproveUser(c, [userId |-> u, approved |-> FALSE])]_vars

\* C22: an accepted approveUser(u, false) sets the document's approved field
\* to false, changes nothing else in the document, answers at once and leaves
\* the identity-provider claims as they are, so claims carrying approved: true
\* and a role flag stay attached to the rejected user.
C22_RejectKeepsClaims ==
    [][\A c \in Callers, d \in ApproveInputs :
          (/\ ApproveUser(c, d)
           /\ approveUserCheck(c, d) = "none"
           /\ d.approved = FALSE) =>
              /\ users' = [users EXCEPT ![d.userId].approved = FALSE]
              /\ claims' = claims
              /\ inflight' = inflight
              /\ reply'.code = "ok"]_vars

\* C22's case: approveUser(u, false) has just answered for a user approved
\* before by approveUser(u, true): the document says approved: false, the
\* claims still say approved: true with the role flag.
C22_Witness ==
    /\ reply.op = "approveUser" /\ reply.arg = "false" /\ reply.code = "ok"
    /\ users[reply.target].approved = FALSE
    /\ ApprovedByCall(reply.target)
    /\ claims[reply.target][users[reply.target].role] = TRUE

TriggerOps == {"onUserCreate", "onUserUpdate", "onNewAssessment", "onAssessmentUpdated"}

LookupFailed(r) ==
    /\ "lecturerLookup" \in DOMAIN r
    /\ (r.lecturerLookup = "failed" \/ r.moderatorLookup = "failed")

\* r is what a trigger run left behind after one of its calls had failed.
FailedTriggerRun(r) ==
    /\ r.op \in TriggerOps
    /\ (r.thrown # "none" \/ LookupFailed(r))

\* C23: every run of onUserCreate, onUserUpdate, onNewAssessment and
\* onAssessmentUpdated returns null, with or without a failed store or
\* identity-provider call inside it; a run in which a call failed takes its event
\* (or its continuation) away and puts nothing back, so nothing is propagated and
\* nothing is retried; and in onAssessmentUpdated the moderator lookup is made
\* whenever the event calls for it, whether or not the lecturer lookup failed
\* (and likewise the lecturer lookup in both assessment triggers).
C23_TriggersSwallowFailures ==
    /\ [](reply.op \in TriggerOps => reply.code = "null")
    /\ [][FailedTriggerRun(reply') =>
            /\ reply'.code = "null"
            /\ events' \sqsubseteq events
            /\ inflight' \sqsubseteq inflight
            /\ BagCardinality(events') + BagCardinality(inflight')
                  = BagCardinality(events) + BagCardinality(inflight) - 1]_vars
    /\ [][\A e \in BagToSet(events) :
            /\ (OnAssessmentUpdated(e) \/ OnAssessmentUpdatedFail(e)) =>
                  /\ reply'.lecturerLookup = "skipped"
                        <=> (~e.statusChanged \/ e.lecturerId = NullId)
                  /\ reply'.moderatorLookup = "skipped"
                        <=> (~e.statusChanged \/ e.moderatorId = NullId)
            /\ (OnNewAssessment(e) \/ OnNewAssessmentFail(e)) =>
                  (reply'.lecturerLookup = "skipped" <=> e.lecturerId = NullId)]_vars

C23_Witness ==
    /\ reply.op = "onAssessmentUpdated"
    /\ reply.lecturerLookup = "failed"
    /\ reply.moderatorLookup = "ok"
    /\ reply.code = "null"

\* The call p carried a feedback field.
SuppliedFeedback(p) == "feedback" \in DOMAIN p.data

\* C24: moderateAssessment is accepted whatever the status of the assessment, and
\* every change of an existing assessment is the update of one moderation call,
\* which stores that call's status and that call's caller as moderatorId
\* together, so that both always stem from the call applied last; the stored
\* feedback becomes that call's feedback if it supplied one and stays what the
\* earlier calls left otherwise.
C24_LastModerationWins ==
    /\ [][\A c \in Callers, d \in ModerateInputs :
            (/\ ModerateAssessment(c, d)
             /\ moderateAssessmentCheck(c, d) = "none"
             /\ assessments[d.assessmentId] # NoDoc) =>
                /\ BagCardinality(inflight') = BagCardinality(inflight) + 1
                /\ \E p \in BagToSet(inflight') :
                      /\ p.op = "moderateAssessment" /\ p.caller = c /\ p.data = d
                      /\ CopiesIn(p, inflight') = CopiesIn(p, inflight) + 1]_vars
    /\ [][\A a \in AssessmentIds :
            (assessments[a] # NoDoc /\ assessments'[a] # assessments[a]) =>
                \E p \in BagToSet(inflight) :
                    /\ ModerateAssessmentUpdate(p) /\ p.uid = a
                    /\ assessments'[a].status = p.data.status
                    /\ assessments'[a].moderatorId = p.caller
                    /\ assessments'[a].feedback =
                          IF SuppliedFeedback(p) THEN p.data.feedback
                          ELSE assessments[a].feedback]_vars
    /\ [][\A p \in BagToSet(inflight) :
            (ModerateAssessmentUpdate(p) /\ assessments[p.uid] # NoDoc) =>
                /\ reply'.thrown = "none"
                /\ assessments'[p.uid].status = p.data.status
                /\ assessments'[p.uid].moderatorId = p.caller
                /\ assessments'[p.uid].feedback =
                      IF SuppliedFeedback(p) THEN p.data.feedback
                      ELSE assessments[p.uid].feedback]_vars

ModeratedStatuses == {"approved", "rejected", "pending_changes"}

\* C25: every assessment has status 'draft' exactly when its moderatorId is null,
\* a draft has feedback null, and a status other than 'draft' is approved,
\* rejected or pending_changes and was stored by the update of a moderation call
\* whose caller, stored as moderatorId, had passed
\* verifyUserRole(caller, ['moderator', 'admin']) when the call was admitted.
C25_AssessmentInvariant ==
    /\ [](\A a \in AssessmentIds :
            assessments[a] # NoDoc =>
                /\ assessments[a].status = "draft" <=> assessments[a].moderatorId = NullId
                /\ assessments[a].status = "draft" => assessments[a].feedback = NullFeedback
                /\ assessments[a].status # "draft" =>
                      assessments[a].status \in ModeratedStatuses)
    /\ [][\A a \in AssessmentIds :
            (/\ assessments'[a] # NoDoc
             /\ assessments'[a] # assessments[a]
             /\ assessments'[a].status # "draft") =>
                \E p \in BagToSet(inflight) :
                    /\ p.op = "moderateAssessment" /\ p.uid = a
                    /\ ModerateAssessmentUpdate(p)
                    /\ assessments'[a].moderatorId = p.caller]_vars
    /\ [][\A p \in BagToSet(inflight') :
            (p.op = "moderateAssessment" /\ CopiesIn(p, inflight') > CopiesIn(p, inflight)) =>
                /\ p.caller # NullId
                /\ verifyUserRole(p.caller, ModeratorRoles).value]_vars

C25_Witness ==
    \E a \in AssessmentIds :
        /\ assessments[a] # NoDoc
        /\ assessments[a].status = "rejected"
        /\ assessments[a].feedback = "F"
        /\ assessments[a].moderatorId # NullId
        /\ users[assessments[a].moderatorId].role = "moderator"
        /\ reply.op = "moderateAssessment" /\ reply.code = "ok"

\* C26: no step turns the status of an existing assessment into 'draft': an
\* assessment stays in the store, a status other than 'draft' is followed by a
\* status other than 'draft', and a moderation request for status 'draft' is
\* turned down without a write.
C26_NeverBackToDraft ==
    /\ [][\A a \in AssessmentIds :
            assessments[a] # NoDoc =>
                /\ assessments'[a] # NoDoc
                /\ assessments[a].status # "draft" => assessments'[a].status # "draft"]_vars
    /\ [][\A c \in Callers, d \in ModerateInputs :
            (/\ "status" \in DOMAIN d /\ d.status = "draft"
             /\ ModerateAssessment(c, d)) =>
                /\ reply' # NoReply /\ reply'.thrown # "none"
                /\ assessments' = assessments
                /\ inflight' = inflight]_vars

C26_Witness ==
    /\ reply.op = "moderateAssessment" /\ reply.code = "ok"
    /\ assessments[reply.target] # NoDoc
    /\ assessments[reply.target].status = "approved"
    /\ assessments[reply.target].feedback = "F"

MissingUsers == {u \in Uids : users[u] = NoDoc}
MissingAssessments == {a \in AssessmentIds : assessments[a] = NoDoc}

\* C27: updateDoc and deleteDoc on an id that holds no document throw and leave
\* the collection as it is; approveUser and updateUserRole for a user id without
\* document fail, create no document and attach no claims, and the update of a
\* moderateAssessment call for an assessment id without document fails and
\* creates no document.
C27_MissingDocument ==
    /\ [](/\ \A u \in MissingUsers, b \in BOOLEAN, r \in validRoles :
                /\ updateDoc(users, u, [approved |-> b]) = [threw |-> TRUE, coll |-> users]
                /\ updateDoc(users, u, [role |-> r]) = [threw |-> TRUE, coll |-> users]
                /\ deleteDoc(users, u) = [threw |-> TRUE, coll |-> users]
           /\ \A a \in MissingAssessments, st \in validStatuses :
                /\ updateDoc(assessments, a, [status |-> st, moderatorId |-> 1])
                      = [threw |-> TRUE, coll |-> assessments]
                /\ deleteDoc(assessments, a) = [threw |-> TRUE, coll |-> assessments])
    /\ [][\A d \in ApproveInputs :
            ("userId" \in DOMAIN d /\ d.userId \in MissingUsers) =>
                \A c \in Callers :
                    ApproveUser(c, d) =>
                        /\ reply' # NoReply /\ reply'.code = "internal"
                        /\ users' = users /\ claims' = claims /\ attached' = attached
                        /\ inflight' = inflight]_vars
    /\ [][\A d \in RoleInputs :
            ("userId" \in DOMAIN d /\ d.userId \in MissingUsers) =>
                \A c \in Callers :
                    UpdateUserRole(c, d) =>
                        /\ reply' # NoReply /\ reply'.code = "internal"
                        /\ users' = users /\ claims' = claims /\ attached' = attached
                        /\ inflight' = inflight]_vars
    /\ [][\A p \in BagToSet(inflight) :
            (p.op = "moderateAssessment" /\ p.uid \in MissingAssessments
             /\ ModerateAssessmentUpdate(p)) =>
                /\ reply'.thrown = "not-found" /\ reply'.code = "internal"
                /\ assessments' = assessments
                /\ events' = events]_vars

C27_Witness ==
    /\ reply.op = "updateUserRole" /\ reply.thrown = "not-found"
    /\ reply.caller # NullId
    /\ MissingUsers # {}
    /\ \A u \in MissingUsers : claims[u] = NoClaims

\* What the authentication check, the role or admin check and the argument
\* validation of a callable throw.
Rejections == {"unauthenticated", "permission-denied", "invalid-argument",
               "failed-precondition"}

\* Neither the document store nor the identity provider changes, and no work is
\* left to be done.
StoresUntouched ==
    /\ users' = users /\ assessments' = assessments
    /\ nIdent' = nIdent /\ claims' = claims /\ attached' = attached
    /\ events' = events /\ inflight' = inflight

\* C28: an invocation of createAssessment, moderateAssessment, approveUser,
\* updateUserRole or createFirstAdmin that its authentication check, its role or
\* admin check or its argument validation rejects leaves the document store and
\* the identity provider exactly as they were, and answers with an error. (The
\* steps are picked out by the operation and the caller of the response.)
C28_RejectedCallsWriteNothing ==
    /\ [][\A d \in AssessmentInputs :
            (/\ reply'.op = "createAssessment"
             /\ createAssessmentCheck(reply'.caller, d) \in Rejections
             /\ CreateAssessment(reply'.caller, d)) =>
                /\ StoresUntouched
                /\ reply'.thrown = createAssessmentCheck(reply'.caller, d)]_vars
    /\ [][\A d \in ModerateInputs :
            (/\ reply'.op = "moderateAssessment"
             /\ moderateAssessmentCheck(reply'.caller, d) \in Rejections
             /\ ModerateAssessment(reply'.caller, d)) =>
                /\ StoresUntouched
                /\ reply'.thrown = moderateAssessmentCheck(reply'.caller, d)]_vars
    /\ [][\A d \in ApproveInputs :
            (/\ reply'.op = "approveUser"
             /\ approveUserCheck(reply'.caller, d) \in Rejections
             /\ ApproveUser(reply'.caller, d)) =>
                /\ StoresUntouched
                /\ reply'.thrown = approveUserCheck(reply'.caller, d)]_vars
    /\ [][\A d \in RoleInputs :
            (/\ reply'.op = "updateUserRole"
             /\ updateUserRoleCheck(reply'.caller, d) \in Rejections
             /\ UpdateUserRole(reply'.caller, d)) =>
                /\ StoresUntouched
                /\ reply'.thrown = updateUserRoleCheck(reply'.caller, d)]_vars
    /\ [][\A d \in FirstAdminInputs :
            (/\ reply'.op = "createFirstAdmin"
             /\ createFirstAdminCheck(d) \in Rejections
             /\ CreateFirstAdmin(d)) =>
                /\ StoresUntouched
                /\ reply'.thrown = createFirstAdminCheck(d)]_vars

C28_Witness ==
    /\ reply.op = "updateUserRole" /\ reply.thrown = "invalid-argument"
    /\ reply.caller # NullId
    /\ \E u \in Uids : HasDoc(u) /\ users[u].role # "admin"

====
